---- MODULE Spec2Model ----
\* SentimentFlow backend: the strategy execution engine (worker), the manual
\* execute route, the strategy creation route, the Aptos settlement client and
\* the on-chain strategy module, as one state machine.
\*
\* Numbers: a probability or score x is held as the integer x * UNIT, so that
\* the basis-point conversions round as Math.round does.  Time is counted in
\* days.  A prisma call is one atomic step; every await is an interleaving
\* point, and every prisma call may throw (the persistence layer is remote).
EXTENDS Integers, Sequences, FiniteSets, Bags, TLC

\* ---------------------------------------------------------------- bounds
MaxStrat == 2      \* rows the Strategy table may hold
MaxTime == 1       \* the clock stops here
MaxRuns == 2       \* Engine runs that may be in flight together
MaxLogs == 2       \* rows the ExecutionLog table may hold
MaxRetry == 1      \* rate-limit resubmissions of one settlement call
MaxInFlight == 2   \* handlers (runs, requests) that may be in flight together
MaxStarts == 2     \* handler invocations (runs, requests) in one behaviour
MaxSnaps == 2      \* snapshots the fetchers write in one behaviour
MaxRows == 2       \* rows of a snapshot table the simulator reads
MaxStamp == 2      \* the simulator's timestamps are 0..MaxStamp
MaxPasses == 3     \* passes of one submitEntryFunction call on its own

\* ---------------------------------------------------------------- scales
UNIT == 10 * 10000                 \* 1.0
DAY == 1                           \* 24 * 60 * 60 * 1000 ms
WEEK == 7 * DAY                    \* 7 * 24 * 60 * 60 * 1000 ms

Runs == 1..MaxRuns
StratIds == 1..MaxStrat

\* market identifiers, as their underscore-separated parts
\* the markets and tags the database has columns for: one market of the
\* exact map, one of each prefix rule, one of no rule, and the tags of these
MarketIds == {<<"CRYPTO", "BTC">>, <<"FED", "RATES">>, <<"SPORTS", "NFL">>,
              <<"POLITICS", "TEXAS">>, <<"US", "POLICY">>}
TagIds == {"CRYPTO", "FED", "SPORTS", "POLITICS"}
\* the market and the tag the fetchers write snapshots of
Markets == {<<"CRYPTO", "BTC">>}
Tags == {"CRYPTO"}
ProbVals == {4000, 60000}          \* 0.04, 0.6
ScoreVals == {5000, 12000, 20000}  \* 0.05, 0.12, 0.2
\* bodies of creation requests
ReqMinProbs == {50000}             \* 0.5
ReqMinSents == {0}                 \* 0.0
ReqExpiries == {0}

NoSnap == [ts |-> -1, value |-> 0]
NoTx == <<>>
NoReason == ""
NoRes == [success |-> FALSE, txHash |-> NoTx, reason |-> NoReason]
\* events, prob_bps, sentiment_bps: the StrategyExecuted events emitted for
\* the strategy, and the data of the latest one
NoCalc == [fn |-> "none"]
NoEntry == [registered |-> FALSE, min_prediction_prob |-> 0,
            min_sentiment_score |-> 0, executed |-> FALSE, events |-> 0,
            prob_bps |-> 0, sentiment_bps |-> 0]

VARIABLES
  now,          \* Date.now(), in days
  strategies,   \* table Strategy: a sequence, the id of a row is its index
  logs,         \* table ExecutionLog: a bag of rows
  market,       \* latest MarketSnapshot of each market
  sentiment,    \* latest SentimentSnapshot of each tag, and the time of the
                \* latest one with score > 0.1
  chain,        \* StrategyStore of the admin account: id -> Strategy
  runs,         \* the Engine runs in flight
  req,          \* the manual execute request in flight
  creator,      \* the creation request in flight
  started,      \* handler invocations so far
  snaps,        \* snapshots written so far
  calc          \* the call of a utility function under evaluation

vars == <<now, strategies, logs, market, sentiment, chain, runs, req, creator,
          started, snaps, calc>>

\* ------------------------------------------------------------ conversions
\* a conversion that truncates
probToBps_floor(p) == p \div 10
\* Math.round(x): floor(x + 1/2)
probToBps(p) == (p + 5) \div 10                    \* round(p * 10000)
\* a sentiment conversion that truncates
sentimentToBps_floor(s) == (s + UNIT) \div 20
sentimentToBps(s) == (s + UNIT + 10) \div 20       \* round((s + 1) * 5000)
bpsToProb(bps) == bps * 10                         \* bps / 10000
bpsToSentiment(bps) == bps * 20 - UNIT             \* bps / 5000 - 1
\* Discovery's encoding of the sentiment threshold: round(s * 10000)
scoreTimes10000(s) == (s + 5) \div 10

\* getSentimentTagForMarket: the exact map first, then the prefix rules;
\* <<>> stands for null
\* a rule table without the exact overrides
exactMap_none(marketId) == <<>>
exactMap(marketId) ==
  CASE marketId = <<"TRUMP", "CABINET">> -> <<"TRUMP">>
    [] marketId = <<"TRUMP", "NOMINEE">> -> <<"TRUMP">>
    [] marketId = <<"ELECTION", "2028">> -> <<"ELECTION">>
    [] marketId = <<"FED", "RATES">> -> <<"FED">>
    [] marketId = <<"ECON", "RECESSION">> -> <<"STOCK_MARKET">>
    [] marketId = <<"FINANCE", "NVIDIA">> -> <<"STOCK_MARKET">>
    [] OTHER -> <<>>

\* marketId.startsWith(prefix + '_')
startsWith(marketId, prefix) == Len(marketId) >= 2 /\ marketId[1] = prefix

getSentimentTagForMarket(marketId) ==
  IF exactMap(marketId) # <<>> THEN exactMap(marketId)
  ELSE IF startsWith(marketId, "CRYPTO") THEN <<"CRYPTO">>
  ELSE IF startsWith(marketId, "SPORTS") THEN <<"SPORTS">>
  ELSE IF startsWith(marketId, "POLITICS") THEN <<"POLITICS">>
  ELSE <<>>

\* ------------------------------------------------------------ the tables
Min(S) == CHOOSE x \in S : \A y \in S : x <= y

Ids == 1..Len(strategies)
\* a findMany that forgets the status filter
ActiveIds_unfiltered == Ids
ActiveIds == {s \in Ids : strategies[s].status = "ACTIVE"}

\* prisma.strategy.create of Discovery: the fixed default parameters
DiscoveryRow(marketId, tag, t) ==
  [marketId |-> marketId, sentimentTag |-> tag,
   minPredictionProb |-> 5000, minSentimentScore |-> 15000,
   expiryTimestamp |-> t + WEEK, status |-> "ACTIVE",
   lastExecutedAt |-> -1, lastTxHash |-> NoTx, onchainStrategyId |-> 0,
   origin |-> "discovery"]

\* prisma.strategy.create of POST /strategy: the validated body
RequestRow(marketId, tag, minProb, minSent, expiry) ==
  [marketId |-> marketId, sentimentTag |-> tag,
   minPredictionProb |-> minProb, minSentimentScore |-> minSent,
   expiryTimestamp |-> expiry, status |-> "ACTIVE",
   lastExecutedAt |-> -1, lastTxHash |-> NoTx, onchainStrategyId |-> 0,
   origin |-> "request"]

\* the data of the two prisma.strategy.update calls of the Engine
ExecutedUpdate(row, txHash, t) ==
  [row EXCEPT !.status = "EXECUTED", !.lastExecutedAt = t, !.lastTxHash = txHash]

\* an expiry update that writes the wrong status
ExpiredUpdate_reactivates(row) == [row EXCEPT !.status = "ACTIVE"]
ExpiredUpdate(row) == [row EXCEPT !.status = "EXPIRED"]

\* an expiry test with the comparison turned round
IsExpired_flipped(t, row) == t < row.expiryTimestamp
\* new Date() > strategy.expiryTimestamp
IsExpired(t, row) == t > row.expiryTimestamp

\* the rows of prisma.executionLog.create
ResultLog(s, res) ==
  [strategyId |-> s, success |-> res.success, txHash |-> res.txHash, reason |-> res.reason]

ErrorLog(s) ==
  [strategyId |-> s, success |-> FALSE, txHash |-> NoTx, reason |-> "Execution error"]

LogCount == BagCardinality(logs)
Append1(row) == logs (+) SetToBag({row})

\* a firing rule that ignores the thresholds
meetsThresholds_always(probability, score, row) == TRUE
\* a firing rule with exclusive comparisons
meetsThresholds_strict(probability, score, row) ==
  probability > row.minPredictionProb /\ score > row.minSentimentScore
\* a firing rule that looks at the probability only
meetsThresholds_probOnly(probability, score, row) ==
  probability >= row.minPredictionProb
\* the firing rule of shouldExecuteStrategy
meetsThresholds(probability, score, row) ==
  probability >= row.minPredictionProb /\ score >= row.minSentimentScore

\* --------------------------------------------------------- the contract
E_STRATEGY_STORE_NOT_FOUND == 1
E_STRATEGY_ALREADY_EXISTS == 2
E_STRATEGY_NOT_FOUND == 3
E_STRATEGY_ALREADY_EXECUTED == 4
E_CONDITIONS_NOT_MET == 8

\* exists<StrategyStore>(owner): moved to the account by its first registration
StoreExists == \E s \in StratIds : chain[s].registered

\* register_strategy: 0, or the abort code
register_abort(s) == IF chain[s].registered THEN E_STRATEGY_ALREADY_EXISTS ELSE 0

register_strategy(s, minProbBps, minSentBps) ==
  IF register_abort(s) # 0 THEN chain
  ELSE [chain EXCEPT ![s] = [registered |-> TRUE, min_prediction_prob |-> minProbBps,
                             min_sentiment_score |-> minSentBps, executed |-> FALSE,
                             events |-> 0, prob_bps |-> 0, sentiment_bps |-> 0]]

\* an execute_strategy that does not look the strategy up
execute_abort_unregistered(s, probBps, sentBps) ==
  IF chain[s].executed THEN E_STRATEGY_ALREADY_EXECUTED
  ELSE IF probBps < chain[s].min_prediction_prob THEN E_CONDITIONS_NOT_MET
  ELSE IF sentBps < chain[s].min_sentiment_score THEN E_CONDITIONS_NOT_MET
  ELSE 0

\* an execute_strategy without the assert on the executed flag
execute_abort_unguarded(s, probBps, sentBps) ==
  IF ~StoreExists THEN E_STRATEGY_STORE_NOT_FOUND
  ELSE IF ~chain[s].registered THEN E_STRATEGY_NOT_FOUND
  ELSE IF probBps < chain[s].min_prediction_prob THEN E_CONDITIONS_NOT_MET
  ELSE IF sentBps < chain[s].min_sentiment_score THEN E_CONDITIONS_NOT_MET
  ELSE 0

\* execute_strategy: 0, or the abort code of the first failing assert
execute_abort(s, probBps, sentBps) ==
  IF ~StoreExists THEN E_STRATEGY_STORE_NOT_FOUND
  ELSE IF ~chain[s].registered THEN E_STRATEGY_NOT_FOUND
  ELSE IF chain[s].executed THEN E_STRATEGY_ALREADY_EXECUTED
  ELSE IF probBps < chain[s].min_prediction_prob THEN E_CONDITIONS_NOT_MET
  ELSE IF sentBps < chain[s].min_sentiment_score THEN E_CONDITIONS_NOT_MET
  ELSE 0

\* an execute_strategy whose failed threshold asserts come after the update
\* of the flag and do not undo it
execute_strategy_partial(s, probBps, sentBps) ==
  IF execute_abort(s, probBps, sentBps) = E_CONDITIONS_NOT_MET
  THEN [chain EXCEPT ![s].executed = TRUE]
  ELSE IF execute_abort(s, probBps, sentBps) # 0 THEN chain
  ELSE [chain EXCEPT ![s].executed = TRUE, ![s].events = @ + 1,
                     ![s].prob_bps = probBps, ![s].sentiment_bps = sentBps]

execute_strategy(s, probBps, sentBps) ==
  IF execute_abort(s, probBps, sentBps) # 0 THEN chain
  ELSE [chain EXCEPT ![s].executed = TRUE, ![s].events = @ + 1,
                     ![s].prob_bps = probBps, ![s].sentiment_bps = sentBps]

\* the hash of the transaction that executed s (the events-th one to do so)
TxHash(s, ch) == <<s, ch[s].events>>

\* ------------------------------------------------- the settlement client
\* One pass of submitEntryFunction's try block.  err_pre, rl_pre: generate,
\* sign or submit fails (rl: with a rate-limit error); ok: the transaction is
\* committed and waitForTransaction returns its outcome; err_post, rl_post:
\* the transaction is committed and waitForTransaction itself fails.
Outcomes == {"err_pre", "rl_pre", "ok", "err_post", "rl_post"}
Commits(o) == o \in {"ok", "err_post", "rl_post"}
\* the catch block's test for a rate-limit error: submitEntryFunction calls
\* itself again
Retries(o) == o \in {"rl_pre", "rl_post"}

\* a client that takes every committed transaction for a success
SubmitResult_optimistic(o, abort, txHash) ==
  IF o = "ok"
  THEN [success |-> TRUE, txHash |-> txHash, reason |-> NoReason]
  ELSE [success |-> FALSE, txHash |-> NoTx, reason |-> "error"]

\* a client that loses the error text of a failed submission
SubmitResult_noReason(o, abort, txHash) ==
  IF o = "ok" /\ abort = 0
  THEN [success |-> TRUE, txHash |-> txHash, reason |-> NoReason]
  ELSE [success |-> FALSE, txHash |-> NoTx, reason |-> NoReason]

\* what submitEntryFunction returns when the pass is its last one; abort is
\* the Move abort code of the committed transaction (checkSuccess: true)
SubmitResult(o, abort, txHash) ==
  IF o = "ok" /\ abort = 0
  THEN [success |-> TRUE, txHash |-> txHash, reason |-> NoReason]
  ELSE [success |-> FALSE, txHash |-> NoTx,
        reason |-> IF o = "ok" THEN "abort" ELSE "error"]

\* ----------------------------------------------------------------- Init
IdleRun ==
  [pc |-> "idle", dsent |-> {}, dmk |-> <<>>, todo |-> {}, cur |-> 0,
   prob |-> NoSnap, sent |-> 0, res |-> NoRes, tries |-> 0, seen |-> {},
   made |-> {}]
IdleReq ==
  [pc |-> "idle", sid |-> 0, prob |-> NoSnap, sent |-> 0, res |-> NoRes,
   tries |-> 0, reply |-> 0]
IdleCreator == [pc |-> "idle", sid |-> 0, tries |-> 0]

\* The worker and the API server start on the database and the chain as they
\* are: empty, or holding a strategy that an earlier POST /strategy created
\* and registered.
Registered(row) ==
  [registered |-> TRUE, min_prediction_prob |-> probToBps(row.minPredictionProb),
   min_sentiment_score |-> sentimentToBps(row.minSentimentScore),
   executed |-> FALSE, events |-> 0, prob_bps |-> 0, sentiment_bps |-> 0]

Init ==
  /\ now = 0
  /\ \/ /\ strategies = <<>>
        /\ chain = [s \in StratIds |-> NoEntry]
     \/ \E m \in Markets, t \in Tags, mp \in ReqMinProbs, ms \in ReqMinSents,
           e \in ReqExpiries :
          /\ strategies = <<RequestRow(m, t, mp, ms, e)>>
          /\ chain = [s \in StratIds |->
                        IF s = 1 THEN Registered(strategies[1]) ELSE NoEntry]
  /\ logs = EmptyBag
  /\ market = [m \in MarketIds |-> NoSnap]
  /\ sentiment = [t \in TagIds |-> [ts |-> -1, value |-> 0, posTs |-> -1]]
  /\ runs = [r \in Runs |-> IdleRun]
  /\ req = IdleReq
  /\ creator = IdleCreator
  /\ started = 0
  /\ snaps = 0
  /\ calc = NoCalc

\* the handlers in flight
InFlight ==
  Cardinality({r \in Runs : runs[r].pc # "idle"})
    + (IF req.pc # "idle" THEN 1 ELSE 0) + (IF creator.pc # "idle" THEN 1 ELSE 0)

\* ------------------------------------------------------ the environment
Tick ==
  /\ now < MaxTime
  /\ now' = now + 1
  /\ UNCHANGED <<strategies, logs, market, sentiment, chain, runs, req, creator,
                 started, snaps, calc>>

\* processMarketSnapshots: one snapshot of a tracked market, stamped now
processMarketSnapshots ==
  \E m \in Markets, p \in ProbVals :
    /\ snaps < MaxSnaps
    /\ snaps' = snaps + 1
    /\ market' = [market EXCEPT ![m] = [ts |-> now, value |-> p]]
    /\ UNCHANGED <<now, strategies, logs, sentiment, chain, runs, req, creator,
                   started, calc>>

\* processSentimentSnapshots: one snapshot of a tracked tag, stamped now
processSentimentSnapshots ==
  \E t \in Tags, v \in ScoreVals :
    /\ snaps < MaxSnaps
    /\ snaps' = snaps + 1
    /\ sentiment' = [sentiment EXCEPT ![t] =
         [ts |-> now, value |-> v, posTs |-> IF v > 10000 THEN now ELSE @.posTs]]
    /\ UNCHANGED <<now, strategies, logs, market, chain, runs, req, creator,
                   started, calc>>

\* ------------------------------------------------------- POST /strategy
SetCreator(c) ==
  /\ creator' = c
  /\ UNCHANGED <<now, market, sentiment, runs, req, logs, snaps, calc>>

\* the user lookup, then prisma.strategy.create with the validated body
CreateStrategy ==
  /\ creator.pc = "idle"
  /\ InFlight < MaxInFlight
  /\ started < MaxStarts
  /\ started' = started + 1
  /\ \/ /\ Len(strategies) < MaxStrat
        /\ \E m \in Markets, t \in Tags, mp \in ReqMinProbs, ms \in ReqMinSents,
              e \in ReqExpiries :
             strategies' = Append(strategies, RequestRow(m, t, mp, ms, e))
        /\ SetCreator([IdleCreator EXCEPT !.pc = "register",
                                          !.sid = Len(strategies) + 1])
        /\ UNCHANGED chain
     \/ \* a prisma call throws: 500
        /\ SetCreator(IdleCreator)
        /\ UNCHANGED <<strategies, chain>>

\* registerStrategyOnChain with the route's encoding of the thresholds; a
\* failed registration throws: 500, and the row stays
CreateRegister ==
  /\ creator.pc = "register"
  /\ \E o \in Outcomes :
       LET s == creator.sid
           row == strategies[s]
           abort == register_abort(s)
       IN /\ chain' = IF Commits(o)
                      THEN register_strategy(s, probToBps(row.minPredictionProb),
                                             sentimentToBps(row.minSentimentScore))
                      ELSE chain
          /\ IF Retries(o)
             THEN /\ creator.tries < MaxRetry
                  /\ SetCreator([creator EXCEPT !.tries = @ + 1])
             ELSE IF SubmitResult(o, abort, NoTx).success
             THEN SetCreator([creator EXCEPT !.pc = "record", !.tries = 0])
             ELSE SetCreator(IdleCreator)
  /\ UNCHANGED <<strategies, started>>

\* BigInt(onchainResult.strategyId) of a row id, which is no decimal
\* numeral: a SyntaxError, so the update is never sent: 500
CreateRecordId ==
  /\ creator.pc = "record"
  /\ SetCreator(IdleCreator)
  /\ UNCHANGED <<strategies, chain, started>>

\* ------------------------------------------------------------ Discovery
SetRun(r, rec) == runs' = [runs EXCEPT ![r] = rec]
Abort(r) == SetRun(r, [runs[r] EXCEPT !.pc = "aborted"])

\* cron.schedule's callback (and startWorker's first run): nothing waits for
\* the run before
StartRun(r) ==
  /\ runs[r].pc = "idle"
  /\ InFlight < MaxInFlight
  /\ SetRun(r, [IdleRun EXCEPT !.pc = "disc_sent",
                 !.seen = {s \in Ids : strategies[s].lastTxHash # NoTx}])
  /\ started < MaxStarts
  /\ started' = started + 1
  /\ UNCHANGED <<now, strategies, logs, market, sentiment, chain, req, creator, snaps, calc>>

\* the tags with a snapshot of score > 0.1 in the last 24 hours
recentSentiments ==
  {t \in TagIds : sentiment[t].posTs >= 0 /\ sentiment[t].posTs >= now - DAY}

\* the markets with a snapshot in the last 24 hours
recentMarkets ==
  {m \in MarketIds : market[m].ts >= 0 /\ market[m].ts >= now - DAY}

\* orderBy timestamp desc; equal timestamps come in any order
Orderings(S) ==
  {q \in [1..Cardinality(S) -> S] :
     /\ \A i, j \in DOMAIN q : i # j => q[i] # q[j]
     /\ \A i, j \in DOMAIN q : i < j => market[q[i]].ts >= market[q[j]].ts}

\* the loop's synchronous part: the markets with a tag that has recent
\* sentiment data; the others are skipped
Matched(q, tags) ==
  SelectSeq(q, LAMBDA m : /\ getSentimentTagForMarket(m) # <<>>
                          /\ getSentimentTagForMarket(m)[1] \in tags)

DiscSentiments(r) ==
  /\ runs[r].pc = "disc_sent"
  /\ \/ SetRun(r, [runs[r] EXCEPT !.pc = "disc_mkt", !.dsent = recentSentiments])
     \/ Abort(r)
  /\ UNCHANGED <<now, strategies, logs, market, sentiment, chain, req, creator, started, snaps, calc>>

DiscMarkets(r) ==
  /\ runs[r].pc = "disc_mkt"
  /\ \/ \E q \in Orderings(recentMarkets) :
          LET todo == Matched(q, runs[r].dsent)
          IN SetRun(r, [runs[r] EXCEPT !.dmk = todo, !.dsent = {},
                          !.pc = IF todo = <<>> THEN "load" ELSE "disc_loop"])
     \/ Abort(r)
  /\ UNCHANGED <<now, strategies, logs, market, sentiment, chain, req, creator, started, snaps, calc>>

\* after one market: the next one, or the end of Discovery
NextMarket(rec) ==
  [rec EXCEPT !.dmk = Tail(@), !.cur = 0, !.tries = 0,
              !.pc = IF Len(rec.dmk) <= 1 THEN "load" ELSE "disc_loop"]

\* a findFirst that never finds a row
existingStrategy_blind(m, tag) == FALSE
\* prisma.strategy.findFirst: a strategy of the pair that is ACTIVE or PENDING
existingStrategy(m, tag) ==
  \E s \in Ids : /\ strategies[s].marketId = m
                 /\ strategies[s].sentimentTag = tag
                 /\ strategies[s].status \in {"ACTIVE", "PENDING"}

DiscFindExisting(r) ==
  /\ runs[r].pc = "disc_loop"
  /\ LET m == Head(runs[r].dmk)
         tag == getSentimentTagForMarket(m)[1]
     IN \/ IF existingStrategy(m, tag)
           THEN SetRun(r, NextMarket(runs[r]))
           ELSE SetRun(r, [runs[r] EXCEPT !.pc = "disc_create"])
        \/ Abort(r)
  /\ UNCHANGED <<now, strategies, logs, market, sentiment, chain, req, creator, started, snaps, calc>>

DiscCreate(r) ==
  /\ runs[r].pc = "disc_create"
  /\ LET m == Head(runs[r].dmk)
         tag == getSentimentTagForMarket(m)[1]
     IN \/ /\ Len(strategies) < MaxStrat
           /\ strategies' = Append(strategies, DiscoveryRow(m, tag, now))
           /\ SetRun(r, [runs[r] EXCEPT !.pc = "disc_reg",
                                         !.cur = Len(strategies) + 1,
                                         !.made = @ \cup {Len(strategies) + 1}])
        \/ /\ Abort(r)
           /\ UNCHANGED strategies
  /\ UNCHANGED <<now, logs, market, sentiment, chain, req, creator, started, snaps, calc>>

\* registerStrategyOnChain with Discovery's encoding of the thresholds; its
\* failure is caught and the loop goes on
DiscRegister(r) ==
  /\ runs[r].pc = "disc_reg"
  /\ \E o \in Outcomes :
       LET s == runs[r].cur
           row == strategies[s]
       IN /\ chain' = IF Commits(o)
                      THEN register_strategy(s, probToBps(row.minPredictionProb),
                                             scoreTimes10000(row.minSentimentScore))
                      ELSE chain
          /\ IF Retries(o)
             THEN /\ runs[r].tries < MaxRetry
                  /\ SetRun(r, [runs[r] EXCEPT !.tries = @ + 1])
             ELSE SetRun(r, NextMarket(runs[r]))
  /\ UNCHANGED <<now, strategies, logs, market, sentiment, req, creator, started, snaps, calc>>

\* ------------------------------------------------------------ the sweep
\* prisma.strategy.findMany where status = ACTIVE; made, the strategies the
\* run's Discovery created, is of no use once the list is loaded
LoadActive(r) ==
  /\ runs[r].pc = "load"
  /\ \/ SetRun(r, [runs[r] EXCEPT !.pc = "sweep", !.todo = ActiveIds,
                                     !.made = {}])
     \/ Abort(r)
  /\ UNCHANGED <<now, strategies, logs, market, sentiment, chain, req, creator, started, snaps, calc>>

\* after one strategy: the delay, then the next one of the loaded list
NextStrategy(rec) ==
  [rec EXCEPT !.pc = "sweep", !.cur = 0, !.prob = NoSnap, !.sent = 0,
              !.res = NoRes, !.tries = 0]

\* the loop's expiry branch: the update sets EXPIRED whatever the row holds
SweepExpire(r) ==
  /\ runs[r].pc = "sweep"
  /\ runs[r].todo # {}
  /\ LET s == Min(runs[r].todo)
     IN /\ IsExpired(now, strategies[s])
        /\ \/ /\ strategies' = [strategies EXCEPT ![s] = ExpiredUpdate(@)]
              /\ SetRun(r, [runs[r] EXCEPT !.todo = @ \ {s}])
           \/ \* the update throws, outside executeStrategy's try
              /\ Abort(r)
              /\ UNCHANGED strategies
  /\ UNCHANGED <<now, logs, market, sentiment, chain, req, creator, started, snaps, calc>>

\* executeStrategy, shouldExecuteStrategy: the latest market snapshot
LookupMarket(r) ==
  /\ runs[r].pc = "sweep"
  /\ runs[r].todo # {}
  /\ LET s == Min(runs[r].todo)
         rec == [runs[r] EXCEPT !.todo = @ \ {s}, !.cur = s]
     IN /\ ~IsExpired(now, strategies[s])
        /\ \/ SetRun(r, [rec EXCEPT !.pc = "lookup_s",
                                    !.prob = market[strategies[s].marketId]])
           \/ SetRun(r, [rec EXCEPT !.pc = "catch"])
  /\ UNCHANGED <<now, strategies, logs, market, sentiment, chain, req, creator, started, snaps, calc>>

\* the latest sentiment snapshot, then the decision
LookupSentiment(r) ==
  /\ runs[r].pc = "lookup_s"
  /\ LET row == strategies[runs[r].cur]
         m == runs[r].prob
         t == sentiment[row.sentimentTag]
     IN \/ IF m.ts < 0 \/ t.ts < 0
           THEN SetRun(r, NextStrategy(runs[r]))             \* Missing data
           ELSE IF meetsThresholds(m.value, t.value, row)
           THEN SetRun(r, [runs[r] EXCEPT !.pc = "settle", !.sent = t.value])
           ELSE SetRun(r, NextStrategy(runs[r]))             \* Thresholds not met
        \/ SetRun(r, [runs[r] EXCEPT !.pc = "catch", !.prob = NoSnap])
  /\ UNCHANGED <<now, strategies, logs, market, sentiment, chain, req, creator, started, snaps, calc>>

\* executeStrategyViaMCP: one pass of the client.  "throw": getAdminAccount
\* throws before the client's try block
Settle(r) ==
  /\ runs[r].pc = "settle"
  /\ LET s == runs[r].cur
         probBps == probToBps(runs[r].prob.value)
         sentimentBps == sentimentToBps(runs[r].sent)
         abort == execute_abort(s, probBps, sentimentBps)
         after == execute_strategy(s, probBps, sentimentBps)
     IN \/ \E o \in Outcomes :
             /\ chain' = IF Commits(o) THEN after ELSE chain
             /\ IF Retries(o)
                THEN /\ runs[r].tries < MaxRetry
                     /\ SetRun(r, [runs[r] EXCEPT !.tries = @ + 1])
                ELSE LET res == SubmitResult(o, abort, TxHash(s, after))
                     IN SetRun(r, [runs[r] EXCEPT !.res = res, !.tries = 0,
                              !.pc = IF res.success THEN "update" ELSE "log"])
        \/ /\ SetRun(r, [runs[r] EXCEPT !.pc = "catch", !.tries = 0])
           /\ UNCHANGED chain
  /\ UNCHANGED <<now, strategies, logs, market, sentiment, req, creator, started, snaps, calc>>

\* the update after a successful settlement: where id, no test of the status
UpdateExecuted(r) ==
  /\ runs[r].pc = "update"
  /\ LET s == runs[r].cur
     IN \/ /\ strategies' = [strategies EXCEPT ![s] =
                               ExecutedUpdate(@, runs[r].res.txHash, now)]
           /\ SetRun(r, [runs[r] EXCEPT !.pc = "log"])
        \/ /\ SetRun(r, [runs[r] EXCEPT !.pc = "catch"])
           /\ UNCHANGED strategies
  /\ UNCHANGED <<now, logs, market, sentiment, chain, req, creator, started, snaps, calc>>

\* the log row of the settlement's result
WriteLog(r) ==
  /\ runs[r].pc = "log"
  /\ \/ /\ LogCount < MaxLogs
        /\ logs' = Append1(ResultLog(runs[r].cur, runs[r].res))
        /\ SetRun(r, NextStrategy(runs[r]))
     \/ /\ SetRun(r, [runs[r] EXCEPT !.pc = "catch"])
        /\ UNCHANGED logs
  /\ UNCHANGED <<now, strategies, market, sentiment, chain, req, creator, started, snaps, calc>>

\* executeStrategy's catch block: the log row of the error; a throw here
\* leaves executeStrategy
CatchLog(r) ==
  /\ runs[r].pc = "catch"
  /\ \/ /\ LogCount < MaxLogs
        /\ logs' = Append1(ErrorLog(runs[r].cur))
        /\ SetRun(r, NextStrategy(runs[r]))
     \/ /\ Abort(r)
        /\ UNCHANGED logs
  /\ UNCHANGED <<now, strategies, market, sentiment, chain, req, creator, started, snaps, calc>>

\* the run returns: the list is done, or the run's catch block logged the
\* error that ended it
RunEnd(r) ==
  /\ \/ runs[r].pc = "aborted"
     \/ runs[r].pc = "sweep" /\ runs[r].todo = {}
  /\ SetRun(r, IdleRun)
  /\ UNCHANGED <<now, strategies, logs, market, sentiment, chain, req, creator, started, snaps, calc>>

\* -------------------------------------------------------- POST /execute
SetReq(q) ==
  /\ req' = q
  /\ UNCHANGED <<now, market, sentiment, runs, creator, snaps, calc>>

Reply(code) == [IdleReq EXCEPT !.reply = code]

\* findUnique, then the test of the status read
ExecFind ==
  /\ req.pc = "idle"
  /\ InFlight < MaxInFlight
  /\ started < MaxStarts
  /\ started' = started + 1
  /\ \E id \in StratIds :
       \/ IF id \notin Ids THEN SetReq(Reply(404))
          ELSE IF strategies[id].status # "ACTIVE" THEN SetReq(Reply(400))
          ELSE SetReq([IdleReq EXCEPT !.pc = "lookup_m", !.sid = id])
       \/ SetReq(Reply(500))
  /\ UNCHANGED <<strategies, logs, chain>>

ExecLookupMarket ==
  /\ req.pc = "lookup_m"
  /\ \/ SetReq([req EXCEPT !.pc = "lookup_s",
                           !.prob = market[strategies[req.sid].marketId]])
     \/ SetReq(Reply(500))
  /\ UNCHANGED <<strategies, logs, chain, started>>

\* a test that looks at the market snapshot only
MissingData_marketOnly(m, t) == m.ts < 0
\* !latestMarketSnapshot || !latestSentimentSnapshot
MissingData(m, t) == m.ts < 0 \/ t.ts < 0

ExecLookupSentiment ==
  /\ req.pc = "lookup_s"
  /\ LET t == sentiment[strategies[req.sid].sentimentTag]
     IN \/ IF MissingData(req.prob, t)
           THEN SetReq(Reply(400))
           ELSE SetReq([req EXCEPT !.pc = "settle", !.sent = t.value])
        \/ SetReq(Reply(500))
  /\ UNCHANGED <<strategies, logs, chain, started>>

ExecSettle ==
  /\ req.pc = "settle"
  /\ LET s == req.sid
         probBps == probToBps(req.prob.value)
         sentimentBps == sentimentToBps(req.sent)
         abort == execute_abort(s, probBps, sentimentBps)
         after == execute_strategy(s, probBps, sentimentBps)
     IN \/ \E o \in Outcomes :
             /\ chain' = IF Commits(o) THEN after ELSE chain
             /\ IF Retries(o)
                THEN /\ req.tries < MaxRetry
                     /\ SetReq([req EXCEPT !.tries = @ + 1])
                ELSE LET res == SubmitResult(o, abort, TxHash(s, after))
                     IN SetReq([req EXCEPT !.res = res, !.tries = 0,
                              !.pc = IF res.success THEN "update" ELSE "log"])
        \/ /\ SetReq(Reply(500))
           /\ UNCHANGED chain
  /\ UNCHANGED <<strategies, logs, started>>

ExecUpdate ==
  /\ req.pc = "update"
  /\ \/ /\ strategies' = [strategies EXCEPT ![req.sid] =
                            ExecutedUpdate(@, req.res.txHash, now)]
        /\ SetReq([req EXCEPT !.pc = "log"])
     \/ /\ SetReq(Reply(500))
        /\ UNCHANGED strategies
  /\ UNCHANGED <<logs, chain, started>>

ExecLog ==
  /\ req.pc = "log"
  /\ \/ /\ LogCount < MaxLogs
        /\ logs' = Append1(ResultLog(req.sid, req.res))
        /\ SetReq(Reply(200))
     \/ /\ SetReq(Reply(500))
        /\ UNCHANGED logs
  /\ UNCHANGED <<strategies, chain, started>>

\* ----------------------------------------------------------------- Next
Engine(r) ==
  \/ StartRun(r) \/ DiscSentiments(r) \/ DiscMarkets(r) \/ DiscFindExisting(r)
  \/ DiscCreate(r) \/ DiscRegister(r) \/ LoadActive(r) \/ SweepExpire(r)
  \/ LookupMarket(r) \/ LookupSentiment(r) \/ Settle(r) \/ UpdateExecuted(r)
  \/ WriteLog(r) \/ CatchLog(r) \/ RunEnd(r)

Next ==
  \/ Tick
  \/ processMarketSnapshots
  \/ processSentimentSnapshots
  \/ CreateStrategy \/ CreateRegister \/ CreateRecordId
  \/ \E r \in Runs : Engine(r)
  \/ ExecFind \/ ExecLookupMarket \/ ExecLookupSentiment \/ ExecSettle
  \/ ExecUpdate \/ ExecLog

Spec == Init /\ [][Next]_vars

\* ------------------------------------------- one handler after the other
\* The same handlers when each is invoked only after the one before has
\* returned (runs shorter than the cron period, no request during a run).
SeqStartRun(r) == InFlight = 0 /\ StartRun(r)
SeqCreateStrategy == InFlight = 0 /\ CreateStrategy
SeqExecFind == InFlight = 0 /\ ExecFind

SeqNext ==
  \/ Tick
  \/ processMarketSnapshots
  \/ processSentimentSnapshots
  \/ SeqCreateStrategy \/ CreateRegister \/ CreateRecordId
  \/ \E r \in Runs :
       \/ SeqStartRun(r) \/ DiscSentiments(r) \/ DiscMarkets(r)
       \/ DiscFindExisting(r) \/ DiscCreate(r) \/ DiscRegister(r)
       \/ LoadActive(r) \/ SweepExpire(r) \/ LookupMarket(r)
       \/ LookupSentiment(r) \/ Settle(r) \/ UpdateExecuted(r)
       \/ WriteLog(r) \/ CatchLog(r) \/ RunEnd(r)
  \/ SeqExecFind \/ ExecLookupMarket \/ ExecLookupSentiment \/ ExecSettle
  \/ ExecUpdate \/ ExecLog

SpecSeq == Init /\ [][SeqNext]_vars

\* ------------------------------------------------- the firing decision
\* One evaluation on its own: a registered strategy, loaded by a run, whose
\* thresholds and latest signals range over values below, at and above one
\* another, the ends of their ranges and values half a basis point apart; a
\* signal may be absent.
DecideMinProbs == {0, 50000, 60000}             \* 0.0, 0.5, 0.6
DecideMinSents == {-UNIT, 0, 10000}             \* -1.0, 0.0, 0.1
\* 0.0, 0.4, 0.5, 0.50004, 0.50005, 0.6, 1.0
DecideProbs == {0, 40000, 50000, 50004, 50005, 60000, UNIT}
\* -1.0, -0.1, 0.0, 0.00009, 0.0001, 0.1, 0.15, 1.0
DecideScores == {-UNIT, -10000, 0, 9, 10, 10000, 15000, UNIT}

InitDecide ==
  /\ now = 0
  /\ \E m \in Markets, t \in Tags :
       \/ \E mp \in DecideMinProbs, ms \in DecideMinSents :
            /\ strategies = <<RequestRow(m, t, mp, ms, 0)>>
            /\ chain = [s \in StratIds |->
                          IF s = 1 THEN Registered(strategies[1]) ELSE NoEntry]
       \/ \* a strategy of Discovery, registered with Discovery's encoding
          /\ strategies = <<DiscoveryRow(m, t, 0)>>
          /\ chain = [s \in StratIds |->
                        IF s = 1
                        THEN [Registered(strategies[1]) EXCEPT
                                !.min_sentiment_score =
                                   scoreTimes10000(strategies[1].minSentimentScore)]
                        ELSE NoEntry]
  /\ logs = EmptyBag
  /\ \E p \in {NoSnap} \cup [ts : {0}, value : DecideProbs] :
       market = [m \in MarketIds |->
                   IF m = strategies[1].marketId THEN p ELSE NoSnap]
  /\ \E v \in {[ts |-> -1, value |-> 0, posTs |-> -1]}
               \cup [ts : {0}, value : DecideScores, posTs : {-1}] :
       sentiment = [t \in TagIds |->
                      IF t = strategies[1].sentimentTag THEN v
                      ELSE [ts |-> -1, value |-> 0, posTs |-> -1]]
  /\ runs = [r \in Runs |->
               IF r = 1 THEN [IdleRun EXCEPT !.pc = "sweep", !.todo = {1}]
               ELSE IdleRun]
  /\ req = IdleReq
  /\ creator = IdleCreator
  /\ started = 1
  /\ snaps = 0
  /\ calc = NoCalc

NextDecide ==
  \E r \in Runs : LookupMarket(r) \/ LookupSentiment(r) \/ Settle(r)

SpecDecide == InitDecide /\ [][NextDecide]_vars

\* ------------------------------------------------- Discovery on its own
\* One Discovery, two days after the database was first written: each market
\* has no snapshot or a fresh one (CRYPTO_BTC possibly only a stale one),
\* each tag has no snapshot or a fresh one with score > 0.1 (CRYPTO possibly
\* only a fresh low one, or a stale high one), and the pair (FED_RATES, FED)
\* may have an ACTIVE strategy already.
DiscNow == 2 * DAY
FreshSnap == [ts |-> DiscNow, value |-> 60000]
StaleSnap == [ts |-> 0, value |-> 60000]
NoSent == [ts |-> -1, value |-> 0, posTs |-> -1]
FreshHigh == [ts |-> DiscNow, value |-> 20000, posTs |-> DiscNow]
FreshLow == [ts |-> DiscNow, value |-> 5000, posTs |-> -1]
StaleHigh == [ts |-> 0, value |-> 20000, posTs |-> 0]

InitDisc ==
  /\ now = DiscNow
  /\ market \in [MarketIds -> {NoSnap, FreshSnap, StaleSnap}]
  /\ \A m \in MarketIds : market[m] = StaleSnap => m \in Markets
  /\ sentiment \in [TagIds -> {NoSent, FreshHigh, FreshLow, StaleHigh}]
  /\ \A t \in TagIds : sentiment[t] \in {FreshLow, StaleHigh} => t \in Tags
  /\ \/ /\ strategies = <<>>
        /\ chain = [s \in StratIds |-> NoEntry]
     \/ /\ strategies = <<RequestRow(<<"FED", "RATES">>, "FED", 50000, 0, 7 * DAY)>>
        /\ chain = [s \in StratIds |->
                      IF s = 1 THEN Registered(strategies[1]) ELSE NoEntry]
  /\ logs = EmptyBag
  /\ runs = [r \in Runs |->
               IF r = 1 THEN [IdleRun EXCEPT !.pc = "disc_sent"] ELSE IdleRun]
  /\ req = IdleReq
  /\ creator = IdleCreator
  /\ started = 1
  /\ snaps = 0
  /\ calc = NoCalc

NextDisc ==
  \E r \in Runs :
    \/ DiscSentiments(r) \/ DiscMarkets(r) \/ DiscFindExisting(r)
    \/ DiscCreate(r) \/ DiscRegister(r)

SpecDisc == InitDisc /\ [][NextDisc]_vars

\* ------------------------------------------------ the utility functions
\* A utility function is evaluated with the service at rest.
Quiet ==
  /\ now = 0
  /\ strategies = <<>>
  /\ chain = [s \in StratIds |-> NoEntry]
  /\ logs = EmptyBag
  /\ market = [m \in MarketIds |-> NoSnap]
  /\ sentiment = [t \in TagIds |-> [ts |-> -1, value |-> 0, posTs |-> -1]]
  /\ runs = [r \in Runs |-> IdleRun]
  /\ req = IdleReq
  /\ creator = IdleCreator
  /\ started = 0
  /\ snaps = 0

\* an evaluation that marks every strategy executed
Rest_marks ==
  /\ strategies' = [s \in DOMAIN strategies |->
                      ExecutedUpdate(strategies[s], NoTx, now)]
  /\ UNCHANGED <<now, logs, market, sentiment, chain, runs, req, creator,
                 started, snaps>>
Rest ==
  UNCHANGED <<now, strategies, logs, market, sentiment, chain, runs, req,
              creator, started, snaps>>

\* The basis-point conversions, on every probability of [0, 1] and every
\* sentiment of [-1, 1] (in steps of 1 / UNIT): to basis points, and back.
InitConv ==
  /\ Quiet
  /\ calc \in [fn : {"probToBps"}, x : 0..UNIT, bps : {0}, back : {0}]
         \cup [fn : {"sentimentToBps"}, x : (-UNIT)..UNIT, bps : {0}, back : {0}]

ToBps ==
  /\ calc.fn \in {"probToBps", "sentimentToBps"}
  /\ calc' = IF calc.fn = "probToBps"
             THEN [calc EXCEPT !.fn = "bpsToProb", !.bps = probToBps(calc.x)]
             ELSE [calc EXCEPT !.fn = "bpsToSentiment",
                               !.bps = sentimentToBps(calc.x)]
  /\ Rest

FromBps ==
  /\ calc.fn \in {"bpsToProb", "bpsToSentiment"}
  /\ calc' = IF calc.fn = "bpsToProb"
             THEN [calc EXCEPT !.fn = "prob", !.back = bpsToProb(calc.bps)]
             ELSE [calc EXCEPT !.fn = "sentiment",
                               !.back = bpsToSentiment(calc.bps)]
  /\ Rest

NextConv == ToBps \/ FromBps

SpecConv == InitConv /\ [][NextConv]_vars

\* ------------------------------------------------ the backtest simulator
\* simulateStrategyExecution on tables of at most MaxRows snapshots of the
\* strategy's market and of its tag, stamped 0..MaxStamp (the tables have no
\* unique index: two rows may carry the same timestamp), over every range
\* from..to.
SimProbs == {40000, 60000}                      \* 0.4, 0.6
SimScores == {-10000, 10000}                    \* -0.1, 0.1
\* the strategy's thresholds: below, at and above the snapshot values
SimMinProbs == {40000, 50000}                   \* 0.4, 0.5
SimMinSents == {-10000, 0}                      \* -0.1, 0.0
Stamps == 0..MaxStamp
Tables(Values) ==
  UNION {[1..n -> [ts : Stamps, value : Values]] : n \in 0..MaxRows}

\* findMany where timestamp in [from, to], orderBy timestamp asc: the rows
\* in range, those of equal timestamp in any order
InRange(e, from, to) == e.ts >= from /\ e.ts <= to
findManyAsc(table, from, to) ==
  LET rows == SelectSeq(table, LAMBDA e : InRange(e, from, to))
  IN {q \in {[i \in DOMAIN rows |-> rows[f[i]]] : f \in Permutations(DOMAIN rows)} :
        \A i, j \in DOMAIN q : i < j => q[i].ts <= q[j].ts}

\* a choice of the earliest sentiment snapshot at or before the market's
closestBefore_earliest(sentimentSnapshots, marketSnapshot) ==
  SelectSeq(sentimentSnapshots, LAMBDA e : e.ts <= marketSnapshot.ts)
\* .filter(s => s.timestamp <= marketSnapshot.timestamp).sort(descending):
\* the sort is stable, rows of equal timestamp keep their order
closestBefore(sentimentSnapshots, marketSnapshot) ==
  LET c == SelectSeq(sentimentSnapshots, LAMBDA e : e.ts <= marketSnapshot.ts)
      rank(k) == Cardinality({i \in DOMAIN c :
                    c[i].ts > c[k].ts \/ (c[i].ts = c[k].ts /\ i < k)}) + 1
  IN [n \in DOMAIN c |-> c[CHOOSE k \in DOMAIN c : rank(k) = n]]

\* a simulator whose comparisons are exclusive
wouldExecute_strict(probability, score, strategy) ==
  /\ probability > strategy.minPredictionProb
  /\ score > strategy.minSentimentScore
\* the simulator's own copy of the firing rule
wouldExecute(probability, score, strategy) ==
  /\ probability >= strategy.minPredictionProb
  /\ score >= strategy.minSentimentScore

\* the loop: a market snapshot with no such sentiment snapshot is skipped
executionPoints(strategy, marketSnapshots, sentimentSnapshots) ==
  LET hit == SelectSeq(marketSnapshots,
               LAMBDA m : closestBefore(sentimentSnapshots, m) # <<>>)
  IN [i \in DOMAIN hit |->
        LET sentimentSnapshot == closestBefore(sentimentSnapshots, hit[i])[1]
        IN [timestamp |-> hit[i].ts, probability |-> hit[i].value,
            sentiment |-> sentimentSnapshot.value,
            wouldExecute |-> wouldExecute(hit[i].value, sentimentSnapshot.value,
                                          strategy)]]

InitSim ==
  /\ Quiet
  /\ calc \in [fn : {"simulate"},
               strategy : [minPredictionProb : SimMinProbs,
                           minSentimentScore : SimMinSents],
               markets : Tables(SimProbs),
               sentiments : Tables(SimScores), from : Stamps, to : Stamps,
               points : {<<>>}, total : {0}]

simulateStrategyExecution ==
  /\ calc.fn = "simulate"
  /\ \E ms \in findManyAsc(calc.markets, calc.from, calc.to),
        ss \in findManyAsc(calc.sentiments, calc.from, calc.to) :
       LET pts == executionPoints(calc.strategy, ms, ss)
       IN calc' = [calc EXCEPT !.fn = "simulated", !.points = pts,
                     !.total = Cardinality({i \in DOMAIN pts : pts[i].wouldExecute})]
  /\ Rest

NextSim == simulateStrategyExecution

SpecSim == InitSim /\ [][NextSim]_vars

\* ------------------------------------------------------- POST /simulate
\* The route on a database that holds no strategy, or one strategy that is
\* ACTIVE, EXECUTED (settled on the latest signals, with its log row) or
\* EXPIRED, and the snapshot tables of its market and tag.
Latest(table) ==
  IF table = <<>> THEN NoSnap
  ELSE table[CHOOSE i \in DOMAIN table :
               \A j \in DOMAIN table : table[j].ts <= table[i].ts]
LatestPositive(table) ==
  LET pos == SelectSeq(table, LAMBDA e : e.value > 10000) IN Latest(pos).ts
SettledRes == [success |-> TRUE, txHash |-> <<1, 1>>, reason |-> NoReason]

InitRoute ==
  /\ now = 1
  /\ \E ms \in Tables(SimProbs), ss \in Tables(SimScores), f, t \in Stamps,
        st \in {"none", "ACTIVE", "EXECUTED", "EXPIRED"} :
       LET m == CHOOSE x \in Markets : TRUE
           tag == getSentimentTagForMarket(m)[1]
           row == RequestRow(m, tag, 50000, 0, 0)
           entry == Registered(row)
       IN /\ calc = [fn |-> "request", markets |-> ms, sentiments |-> ss,
                     from |-> f, to |-> t, sid |-> 0, ms |-> <<>>, ss |-> <<>>,
                     points |-> <<>>, total |-> 0, reply |-> 0]
          /\ market = [x \in MarketIds |-> IF x = m THEN Latest(ms) ELSE NoSnap]
          /\ sentiment = [x \in TagIds |->
                IF x = tag
                THEN [ts |-> Latest(ss).ts, value |-> Latest(ss).value,
                      posTs |-> LatestPositive(ss)]
                ELSE [ts |-> -1, value |-> 0, posTs |-> -1]]
          /\ st = "EXECUTED" => ms # <<>> /\ ss # <<>>
          /\ strategies =
               CASE st = "none" -> <<>>
                 [] st = "ACTIVE" -> <<row>>
                 [] st = "EXECUTED" -> <<ExecutedUpdate(row, SettledRes.txHash, 0)>>
                 [] st = "EXPIRED" -> <<ExpiredUpdate(row)>>
          /\ chain = [s \in StratIds |->
               IF st = "none" \/ s # 1 THEN NoEntry
               ELSE IF st = "EXECUTED"
               THEN [entry EXCEPT !.executed = TRUE, !.events = 1,
                       !.prob_bps = probToBps(Latest(ms).value),
                       !.sentiment_bps = sentimentToBps(Latest(ss).value)]
               ELSE entry]
          /\ logs = IF st = "EXECUTED" THEN SetToBag({ResultLog(1, SettledRes)})
                    ELSE EmptyBag
  /\ runs = [r \in Runs |-> IdleRun]
  /\ req = IdleReq
  /\ creator = IdleCreator
  /\ started = 0
  /\ snaps = 0

\* the catch block: 500
SimulateFails ==
  /\ calc.fn \in {"request", "query_m", "query_s"}
  /\ calc' = [calc EXCEPT !.fn = "replied", !.reply = 500]
  /\ Rest

\* prisma.strategy.findUnique: 404 when there is no such strategy
SimulateFind ==
  /\ calc.fn = "request"
  /\ \E id \in StratIds :
       calc' = IF id \in Ids
               THEN [calc EXCEPT !.fn = "query_m", !.sid = id]
               ELSE [calc EXCEPT !.fn = "replied", !.reply = 404]
  /\ Rest

SimulateMarkets ==
  /\ calc.fn = "query_m"
  /\ \E ms \in findManyAsc(calc.markets, calc.from, calc.to) :
       calc' = [calc EXCEPT !.fn = "query_s", !.ms = ms]
  /\ Rest

SimulateSentiments ==
  /\ calc.fn = "query_s"
  /\ \E ss \in findManyAsc(calc.sentiments, calc.from, calc.to) :
       calc' = [calc EXCEPT !.fn = "loop", !.ss = ss]
  /\ Rest

\* the loop, and the reply: 200 with the points
SimulateReply ==
  /\ calc.fn = "loop"
  /\ LET pts == executionPoints(strategies[calc.sid], calc.ms, calc.ss)
     IN calc' = [calc EXCEPT !.fn = "replied", !.reply = 200, !.points = pts,
                   !.total = Cardinality({i \in DOMAIN pts : pts[i].wouldExecute})]
  /\ Rest

NextRoute ==
  \/ SimulateFind \/ SimulateMarkets \/ SimulateSentiments \/ SimulateReply
  \/ SimulateFails

SpecRoute == InitRoute /\ [][NextRoute]_vars

\* ------------------------------------------------------ the worker process
\* startWorker: the initial Polymarket fetcher, sentiment fetcher and Engine
\* run, one after the other, then the scheduling of the periodic runs.  db
\* tells whether the persistence layer can be reached (every prisma call
\* throws when it cannot); calc holds the worker's position.
InitWorker ==
  /\ Quiet
  /\ calc \in [fn : {"startWorker"}, pc : {"polymarket"}, db : {"up", "down"}]

\* runPolymarketFetcher: its try block catches the failure
WorkerPolymarket ==
  /\ calc.fn = "startWorker" /\ calc.pc = "polymarket"
  /\ calc' = [calc EXCEPT !.pc = "sentiment"]
  /\ IF calc.db = "up"
     THEN \E m \in Markets, p \in ProbVals :
            market' = [market EXCEPT ![m] = [ts |-> now, value |-> p]]
     ELSE UNCHANGED market
  /\ UNCHANGED <<now, strategies, logs, sentiment, chain, runs, req, creator,
                 started, snaps>>

\* runSentimentFetcher: its try block catches the failure
WorkerSentiment ==
  /\ calc.fn = "startWorker" /\ calc.pc = "sentiment"
  /\ calc' = [calc EXCEPT !.pc = "engine"]
  /\ IF calc.db = "up"
     THEN \E t \in Tags, v \in ScoreVals :
            sentiment' = [sentiment EXCEPT ![t] =
              [ts |-> now, value |-> v, posTs |-> IF v > 10000 THEN now ELSE @.posTs]]
     ELSE UNCHANGED sentiment
  /\ UNCHANGED <<now, strategies, logs, market, chain, runs, req, creator,
                 started, snaps>>

\* await runStrategyExecutionEngine(): the initial run begins
WorkerEngine ==
  /\ calc.fn = "startWorker" /\ calc.pc = "engine"
  /\ calc' = [calc EXCEPT !.pc = "engine_wait"]
  /\ SetRun(1, [IdleRun EXCEPT !.pc = "disc_sent"])
  /\ started' = started + 1
  /\ UNCHANGED <<now, strategies, logs, market, sentiment, chain, req, creator,
                 snaps>>

\* the run's first prisma call throws when the persistence layer cannot be
\* reached, and the run's catch block takes it
WorkerFirstQuery(r) ==
  /\ DiscSentiments(r)
  /\ calc.db = "down" => runs'[r].pc = "aborted"

\* the steps of a run (no strategy expires in the worker's first minutes)
WorkerRun(r) ==
  \/ WorkerFirstQuery(r)
  \/ DiscMarkets(r) \/ DiscFindExisting(r) \/ DiscCreate(r)
  \/ DiscRegister(r) \/ LoadActive(r)
  \/ LookupMarket(r) \/ LookupSentiment(r) \/ Settle(r)
  \/ UpdateExecuted(r) \/ WriteLog(r) \/ CatchLog(r) \/ RunEnd(r)

\* the initial run has returned: setInterval, cron.schedule
WorkerSchedule ==
  /\ calc.fn = "startWorker" /\ calc.pc = "engine_wait"
  /\ runs[1].pc = "idle"
  /\ calc' = [calc EXCEPT !.pc = "scheduled"]
  /\ Rest

\* cron's callback
WorkerCron(r) ==
  /\ calc.fn = "startWorker" /\ calc.pc = "scheduled"
  /\ StartRun(r)

NextWorker ==
  \/ WorkerPolymarket \/ WorkerSentiment \/ WorkerEngine \/ WorkerSchedule
  \/ \E r \in Runs : WorkerRun(r) \/ WorkerCron(r)

SpecWorker == InitWorker /\ [][NextWorker]_vars

\* ------------------------------------------- the settlement client alone
\* One call of submitEntryFunction, for register_strategy or execute_strategy
\* of one strategy id, on a chain that holds nothing, or one strategy,
\* registered or executed, under that id or under another one.  calc.passes counts the passes of the try block.
SubmitFns == {"register_strategy", "execute_strategy"}
SubmitProbBps == {400, 6000}
SubmitSentBps == {4000, 6000}

InitSubmit ==
  /\ now = 0
  /\ strategies = <<>>
  /\ logs = EmptyBag
  /\ market = [m \in MarketIds |-> NoSnap]
  /\ sentiment = [t \in TagIds |-> [ts |-> -1, value |-> 0, posTs |-> -1]]
  /\ runs = [r \in Runs |-> IdleRun]
  /\ req = IdleReq
  /\ creator = IdleCreator
  /\ started = 0
  /\ snaps = 0
  /\ \E s \in StratIds, m \in Markets, t \in Tags, mp \in ReqMinProbs,
        ms \in ReqMinSents, e \in ReqExpiries :
       LET entry == Registered(RequestRow(m, t, mp, ms, e))
       IN /\ chain \in {[x \in StratIds |-> NoEntry],
                        [x \in StratIds |-> IF x = s THEN entry ELSE NoEntry],
                        [x \in StratIds |->
                           IF x = s THEN [entry EXCEPT !.executed = TRUE, !.events = 1,
                                            !.prob_bps = 6000, !.sentiment_bps = 6000]
                           ELSE NoEntry]}
          /\ calc \in [fn : SubmitFns, pc : {"try"}, sid : StratIds,
                       probBps : SubmitProbBps, sentBps : SubmitSentBps,
                       passes : {0}, res : {NoRes}]

\* the Move abort code of the call's transaction on the chain as it is
SubmitAbort ==
  IF calc.fn = "register_strategy" THEN register_abort(calc.sid)
  ELSE execute_abort(calc.sid, calc.probBps, calc.sentBps)
\* the chain after the call's transaction
SubmitAfter ==
  IF calc.fn = "register_strategy"
  THEN register_strategy(calc.sid, calc.probBps, calc.sentBps)
  ELSE execute_strategy(calc.sid, calc.probBps, calc.sentBps)

\* the catch block's rate-limit branch: the function calls itself again,
\* with no count of the calls made
SubmitRetry ==
  /\ calc.fn \in SubmitFns /\ calc.pc = "try"
  /\ calc.passes + 1 < MaxPasses
  /\ \E o \in Outcomes :
       /\ Retries(o)
       /\ chain' = IF Commits(o) THEN SubmitAfter ELSE chain
  /\ calc' = [calc EXCEPT !.passes = @ + 1]
  /\ UNCHANGED <<now, strategies, logs, market, sentiment, runs, req, creator,
                 started, snaps>>

\* a pass that returns: success, or the error of the catch block
SubmitReturn ==
  /\ calc.fn \in SubmitFns /\ calc.pc = "try"
  /\ \E o \in Outcomes :
       /\ ~Retries(o)
       /\ chain' = IF Commits(o) THEN SubmitAfter ELSE chain
       /\ calc' = [calc EXCEPT !.passes = @ + 1, !.pc = "returned",
                      !.res = SubmitResult(o, SubmitAbort,
                                           TxHash(calc.sid, SubmitAfter))]
  /\ UNCHANGED <<now, strategies, logs, market, sentiment, runs, req, creator,
                 started, snaps>>

NextSubmit == SubmitRetry \/ SubmitReturn

SpecSubmit == InitSubmit /\ [][NextSubmit]_vars

\* ------------------------------------------------- the worker, for ever
\* The worker process on its own and without end: the clock, the fetchers,
\* and Engine runs that follow one another in one slot, started by the driver
\* as long as the process lives.  The database holds nothing, or a strategy
\* of an earlier POST /strategy, whose registration succeeded or failed (the
\* row stays in both cases).
LiveRuns == {1}

InitLive ==
  /\ now = 0
  /\ \/ /\ strategies = <<>>
        /\ chain = [s \in StratIds |-> NoEntry]
     \/ \E m \in Markets, t \in Tags, mp \in ReqMinProbs, ms \in ReqMinSents,
           e \in ReqExpiries :
          /\ strategies = <<RequestRow(m, t, mp, ms, e)>>
          /\ chain \in {[s \in StratIds |-> NoEntry],
                        [s \in StratIds |->
                           IF s = 1 THEN Registered(strategies[1]) ELSE NoEntry]}
  /\ logs = EmptyBag
  /\ market = [m \in MarketIds |-> NoSnap]
  /\ sentiment = [t \in TagIds |-> [ts |-> -1, value |-> 0, posTs |-> -1]]
  /\ runs = [r \in Runs |-> IdleRun]
  /\ req = IdleReq
  /\ creator = IdleCreator
  /\ started = 0
  /\ snaps = 0
  /\ calc = NoCalc

\* the driver's next run, with no count of the runs made
LiveStartRun(r) ==
  /\ runs[r].pc = "idle"
  /\ SetRun(r, [IdleRun EXCEPT !.pc = "disc_sent",
                 !.seen = {s \in Ids : strategies[s].lastTxHash # NoTx}])
  /\ UNCHANGED <<now, strategies, logs, market, sentiment, chain, req, creator,
                 started, snaps, calc>>

\* the ExecutionLog after one more row; of a table that grows without end
\* the first MaxLogs rows are kept
Logged(row) == IF LogCount < MaxLogs THEN Append1(row) ELSE logs

LiveWriteLog(r) ==
  /\ runs[r].pc = "log"
  /\ \/ /\ logs' = Logged(ResultLog(runs[r].cur, runs[r].res))
        /\ SetRun(r, NextStrategy(runs[r]))
     \/ /\ SetRun(r, [runs[r] EXCEPT !.pc = "catch"])
        /\ UNCHANGED logs
  /\ UNCHANGED <<now, strategies, market, sentiment, chain, req, creator,
                 started, snaps, calc>>

LiveCatchLog(r) ==
  /\ runs[r].pc = "catch"
  /\ \/ /\ logs' = Logged(ErrorLog(runs[r].cur))
        /\ SetRun(r, NextStrategy(runs[r]))
     \/ /\ Abort(r)
        /\ UNCHANGED logs
  /\ UNCHANGED <<now, strategies, market, sentiment, chain, req, creator,
                 started, snaps, calc>>

LiveEngine(r) ==
  \/ LiveStartRun(r) \/ DiscSentiments(r) \/ DiscMarkets(r)
  \/ DiscFindExisting(r) \/ DiscCreate(r) \/ DiscRegister(r) \/ LoadActive(r)
  \/ SweepExpire(r) \/ LookupMarket(r) \/ LookupSentiment(r) \/ Settle(r)
  \/ UpdateExecuted(r) \/ LiveWriteLog(r) \/ LiveCatchLog(r) \/ RunEnd(r)

NextLive ==
  \/ Tick
  \/ processMarketSnapshots
  \/ processSentimentSnapshots
  \/ \E r \in LiveRuns : LiveEngine(r)

\* The clock goes on and the event loop takes the next step of the run in
\* flight, or the driver starts the next run (weak fairness); the database
\* calls of the sweep do not fail for ever (strong fairness of their
\* successful outcome).
LiveFair ==
  /\ WF_vars(Tick)
  /\ \A r \in LiveRuns :
       /\ WF_vars(LiveEngine(r))
       /\ SF_vars(LoadActive(r) /\ runs'[r].pc # "aborted")
       /\ SF_vars(SweepExpire(r) /\ runs'[r].pc # "aborted")
       /\ SF_vars(LiveCatchLog(r) /\ runs'[r].pc # "aborted")

SpecLive == InitLive /\ [][NextLive]_vars /\ LiveFair

\* ============================================================== claims
status(s) == strategies[s].status
Terminal == {"EXECUTED", "EXPIRED"}
\* the ExecutionLog rows of s with the given success flag
LogsOf(s, ok) ==
  LET S == {e \in DOMAIN logs : e.strategyId = s /\ e.success = ok}
  IN BagCardinality([e \in S |-> logs[e]])
\* r takes a step
Steps(r) == runs'[r] # runs[r]
RunsInFlight == {r \in Runs : runs[r].pc # "idle"}

\* C1: each strategy has at most one ExecutionLog row with success = true,
\* and a step takes a strategy from ACTIVE to EXECUTED only if no execution
\* was recorded for it before: at most one ACTIVE -> EXECUTED transition and
\* one successful settlement under every interleaving of runs and requests.
C1_AtMostOneSettlement ==
  /\ [](\A s \in Ids : LogsOf(s, TRUE) <= 1 /\ chain[s].events <= 1)
  /\ [][\A s \in Ids :
          (status(s) = "ACTIVE" /\ strategies'[s].status = "EXECUTED")
            => /\ strategies[s].lastTxHash = NoTx
               /\ LogsOf(s, TRUE) = 0]_vars

\* a second settlement of an executed strategy was tried and refused
C1_Witness ==
  \E s \in Ids :
    /\ LogsOf(s, TRUE) = 1
    /\ status(s) = "EXECUTED"
    /\ \E e \in DOMAIN logs :
         e.strategyId = s /\ ~e.success /\ e.reason = "abort"

\* C2: once EXECUTED or EXPIRED, no step changes the status.
C2_TerminalIsFinal ==
  [][\A s \in Ids : status(s) \in Terminal
        => strategies'[s].status = status(s)]_vars

\* C3: the write of EXECUTED finds the strategy ACTIVE, and a recorded
\* execution (status, lastExecutedAt, lastTxHash) is never overwritten.
C3_ConditionalWrite ==
  [][\A s \in Ids :
       /\ (strategies'[s].status = "EXECUTED" /\ status(s) # "EXECUTED")
            => status(s) = "ACTIVE"
       /\ (status(s) = "EXECUTED")
            => /\ strategies'[s].status = "EXECUTED"
               /\ strategies'[s].lastExecutedAt = strategies[s].lastExecutedAt
               /\ strategies'[s].lastTxHash = strategies[s].lastTxHash]_vars

\* C4: at most one Engine run is in flight.
C4_OneRunInFlight == Cardinality(RunsInFlight) <= 1

\* C5: a strategy that is EXECUTED or EXPIRED is never ACTIVE afterwards.
C5_NeverActiveAgain ==
  [][\A s \in Ids : status(s) \in Terminal
        => strategies'[s].status # "ACTIVE"]_vars

\* a strategy went through both terminal statuses: executed, then set to
\* EXPIRED by a sweep
C5_Witness ==
  \E s \in Ids : status(s) = "EXPIRED" /\ strategies[s].lastTxHash # NoTx

\* C6: when the log row of a successful settlement is written, the
\* evaluation ends with the strategy EXECUTED, lastExecutedAt set, lastTxHash
\* the returned reference, and a success row carrying that reference.
C6_SuccessEndsExecuted ==
  [][\A r \in Runs :
       (runs[r].pc = "log" /\ runs[r].res.success /\ runs'[r].pc = "sweep")
         => LET s == runs[r].cur
            IN /\ strategies'[s].status = "EXECUTED"
               /\ strategies'[s].lastExecutedAt >= 0
               /\ strategies'[s].lastTxHash = runs[r].res.txHash
               /\ \E e \in DOMAIN logs' :
                    /\ e.strategyId = s /\ e.success
                    /\ e.txHash = runs[r].res.txHash]_vars

\* C7: a failed settlement changes no strategy row; its log step appends
\* exactly one row, success = false with a non-empty reason; and the next
\* run loads every ACTIVE strategy again and settles it when it is eligible.
C7_FailureKeepsActive ==
  [][\A r \in Runs :
       /\ (runs[r].pc = "settle" /\ runs'[r].pc = "log")
            => /\ ~runs'[r].res.success
               /\ runs'[r].res.reason # NoReason
               /\ strategies' = strategies /\ logs' = logs
       /\ (runs[r].pc = "log" /\ ~runs[r].res.success /\ runs'[r].pc = "sweep")
            => /\ strategies' = strategies
               /\ \E e \in [strategyId : {runs[r].cur}, success : {FALSE},
                            txHash : {NoTx}, reason : {"error", "abort"}] :
                    logs' = logs (+) SetToBag({e})
       /\ (runs[r].pc = "load" /\ runs'[r].pc = "sweep")
            => runs'[r].todo = {s \in Ids : status(s) = "ACTIVE"}
       /\ (runs[r].pc = "lookup_s" /\ Steps(r) /\ runs'[r].pc # "catch")
            => LET row == strategies[runs[r].cur]
                   t == sentiment[row.sentimentTag]
               IN (/\ runs[r].prob.ts >= 0 /\ t.ts >= 0
                   /\ runs[r].prob.value >= row.minPredictionProb
                   /\ t.value >= row.minSentimentScore)
                    => runs'[r].pc = "settle"]_vars

\* a strategy with a failed settlement on record, still ACTIVE, is being
\* settled again by a later run
C7_Witness ==
  \E r \in Runs :
    /\ runs[r].pc = "settle"
    /\ status(runs[r].cur) = "ACTIVE"
    /\ \A q \in Runs \ {r} : runs[q].pc = "idle"
    /\ req.pc = "idle"
    /\ \E e \in DOMAIN logs :
         e.strategyId = runs[r].cur /\ ~e.success /\ e.reason \in {"error", "abort"}

\* C8: a run never ends by an error while strategies of its list are still
\* to be processed.
C8_RunNeverAborts ==
  \A r \in Runs : runs[r].pc = "aborted" => runs[r].todo = {}

\* C9: the sweep's step on an ACTIVE strategy whose expiry is earlier than
\* now sets it EXPIRED, appends no log row, sends nothing to the chain and
\* goes on to the next strategy without a lookup.
C9_ExpiryWithoutLookup ==
  [][\A r \in Runs :
       (/\ runs[r].pc = "sweep" /\ runs[r].todo # {}
        /\ status(Min(runs[r].todo)) = "ACTIVE"
        /\ strategies[Min(runs[r].todo)].expiryTimestamp < now
        /\ Steps(r) /\ runs'[r].pc # "aborted")
         => LET s == Min(runs[r].todo)
            IN /\ strategies'[s].status = "EXPIRED"
               /\ logs' = logs /\ chain' = chain
               /\ runs'[r].pc = "sweep" /\ runs'[r].cur = 0
               /\ s \notin runs'[r].todo]_vars

\* a strategy was expired with no execution and no log row while the latest
\* signals met its thresholds
C9_Witness ==
  \E s \in Ids :
    /\ status(s) = "EXPIRED" /\ strategies[s].lastTxHash = NoTx
    /\ LogsOf(s, TRUE) + LogsOf(s, FALSE) = 0
    /\ market[strategies[s].marketId].ts >= 0
    /\ sentiment[strategies[s].sentimentTag].ts >= 0
    /\ meetsThresholds(market[strategies[s].marketId].value,
                       sentiment[strategies[s].sentimentTag].value, strategies[s])
    /\ ~chain[s].executed

\* C10: a run that started after a strategy reached EXECUTED never holds it
\* in its list and never evaluates it.
C10_ExecutedNotLoaded ==
  \A r \in Runs : \A s \in runs[r].seen :
    s \notin runs[r].todo /\ runs[r].cur # s

\* a run that started after an execution has loaded its list
C10_Witness ==
  \E r \in Runs : runs[r].seen # {} /\ runs[r].pc = "sweep"

\* C11: a step takes a strategy from ACTIVE to EXECUTED only as the update of
\* an evaluation (of a run or of a manual request) whose settlement succeeded
\* and whose two signal values met the strategy's thresholds.
C11_ExecutedOnlyWhenEligible ==
  [][\A s \in Ids :
       (status(s) = "ACTIVE" /\ strategies'[s].status = "EXECUTED")
         => \/ \E r \in Runs :
                 /\ runs[r].pc = "update" /\ runs[r].cur = s /\ Steps(r)
                 /\ runs[r].res.success
                 /\ runs[r].prob.value >= strategies[s].minPredictionProb
                 /\ runs[r].sent >= strategies[s].minSentimentScore
            \/ /\ req.pc = "update" /\ req.sid = s /\ req' # req
               /\ req.res.success
               /\ req.prob.value >= strategies[s].minPredictionProb
               /\ req.sent >= strategies[s].minSentimentScore]_vars

\* the ACTIVE strategies of a (market, tag) pair
ActiveOfPair(m, tag) ==
  {s \in Ids : /\ strategies[s].marketId = m /\ strategies[s].sentimentTag = tag
               /\ status(s) = "ACTIVE"}
Discovered == {s \in Ids : strategies[s].origin = "discovery"}

\* C12: when Discovery runs one after the other, a Discovery creates a
\* strategy only for a pair that has no ACTIVE strategy, so a second
\* Discovery over the same data creates none and no pair ever has two ACTIVE
\* strategies that Discovery created.
C12_DiscoveryIdempotent ==
  /\ [](\A s, t \in Discovered :
          (s # t /\ status(s) = "ACTIVE" /\ status(t) = "ACTIVE")
            => <<strategies[s].marketId, strategies[s].sentimentTag>>
                 # <<strategies[t].marketId, strategies[t].sentimentTag>>)
  /\ [][\A r \in Runs :
          (runs[r].pc = "disc_create" /\ Len(strategies') > Len(strategies))
            => LET row == strategies'[Len(strategies')]
               IN ActiveOfPair(row.marketId, row.sentimentTag) = {}]_vars

\* a second run, after one that created and evaluated the strategy, has been
\* through Discovery over the same data and created nothing
C12_Witness ==
  \E r \in Runs :
    /\ runs[r].pc = "sweep" /\ runs[r].todo = {1}
    /\ Len(strategies) = 1 /\ strategies[1].origin = "discovery"
    /\ LogsOf(1, FALSE) >= 1

\* C13: no two ACTIVE strategies that Discovery created share a (market,
\* tag) pair, under every interleaving of runs.
C13_NoDuplicateActive ==
  \A s, t \in Discovered :
    (s # t /\ status(s) = "ACTIVE" /\ status(t) = "ACTIVE")
      => <<strategies[s].marketId, strategies[s].sentimentTag>>
           # <<strategies[t].marketId, strategies[t].sentimentTag>>

\* the failed ExecutionLog rows a run can write for s
FailedRows(s) ==
  [strategyId : {s}, success : {FALSE}, txHash : {NoTx},
   reason : {"error", "abort", "Execution error"}]

C15_FiringRule ==
  [][\A r \in Runs :
       (runs[r].pc = "lookup_s" /\ Steps(r) /\ runs'[r].pc # "catch")
         => LET row == strategies[runs[r].cur]
                p == runs[r].prob
                t == sentiment[row.sentimentTag]
                fires == runs'[r].pc = "settle"
            IN /\ (p.ts >= 0 /\ t.ts >= 0)
                    => (fires <=> (/\ p.value >= row.minPredictionProb
                                   /\ t.value >= row.minSentimentScore))
               /\ (/\ row.minPredictionProb = 50000 /\ row.minSentimentScore = 0
                   /\ p.ts >= 0 /\ t.ts >= 0)
                    => /\ (p.value = 60000 /\ t.value = 10000) => fires
                       /\ (p.value = 40000) => ~fires]_vars

\* thresholds 0.5 and 0.0, signals at the thresholds: the evaluation goes to
\* the settlement
C15_Witness ==
  \E r \in Runs :
    /\ runs[r].pc = "settle"
    /\ strategies[runs[r].cur].minPredictionProb = 50000
    /\ strategies[runs[r].cur].minSentimentScore = 0
    /\ runs[r].prob.value = 50000 /\ runs[r].sent = 0

\* C16: when an evaluation has read the signals and one of them is absent or
\* the thresholds are not met, its step sends nothing to the chain, changes
\* no strategy row, appends no log row and returns to the loop.
C16_SkipChangesNothing ==
  [][\A r \in Runs :
       (runs[r].pc = "lookup_s" /\ Steps(r) /\ runs'[r].pc # "catch")
         => LET row == strategies[runs[r].cur]
                p == runs[r].prob
                t == sentiment[row.sentimentTag]
            IN (\/ p.ts < 0 \/ t.ts < 0
                \/ p.value < row.minPredictionProb
                \/ t.value < row.minSentimentScore)
                 => /\ runs'[r].pc = "sweep" /\ runs'[r].cur = 0
                    /\ runs'[r].res = NoRes
                    /\ strategies' = strategies
                    /\ logs' = logs
                    /\ chain' = chain]_vars

\* the only handler so far, a run, created a strategy from a sentiment of
\* 0.12, evaluated it against its threshold of 0.15 and is through its list:
\* the strategy is ACTIVE, nothing was logged, nothing was executed
C16_Witness ==
  \E r \in Runs :
    /\ runs[r].pc = "sweep" /\ runs[r].todo = {} /\ runs[r].cur = 0
    /\ started = 1
    /\ Len(strategies) = 1 /\ strategies[1].origin = "discovery"
    /\ status(1) = "ACTIVE"
    /\ market[strategies[1].marketId].value = 60000
    /\ sentiment[strategies[1].sentimentTag].value = 12000
    /\ LogCount = 0 /\ chain[1].events = 0

\* C17: every minimum-sentiment threshold registered on the chain is the
\* strategy's minSentimentScore under bps = round((score + 1) * 5000), and
\* lies in 0..10000.
C17_OneSentimentEncoding ==
  \A s \in Ids :
    chain[s].registered
      => LET b == chain[s].min_sentiment_score
             x == strategies[s].minSentimentScore
         IN /\ 20 * b <= x + UNIT + 10 /\ 20 * b > x + UNIT - 10
            /\ b \in 0..10000

Abs(x) == IF x < 0 THEN -x ELSE x
\* 1 / 10000
Tolerance == UNIT \div 10000

Qualifying ==
  {i \in DOMAIN calc.markets :
     /\ InRange(calc.markets[i], calc.from, calc.to)
     /\ \E j \in DOMAIN calc.sentiments :
          /\ InRange(calc.sentiments[j], calc.from, calc.to)
          /\ calc.sentiments[j].ts <= calc.markets[i].ts}
LatestBefore(i) ==
  {j \in DOMAIN calc.sentiments :
     /\ InRange(calc.sentiments[j], calc.from, calc.to)
     /\ calc.sentiments[j].ts <= calc.markets[i].ts
     /\ \A k \in DOMAIN calc.sentiments :
          (/\ InRange(calc.sentiments[k], calc.from, calc.to)
           /\ calc.sentiments[k].ts <= calc.markets[i].ts)
          => calc.sentiments[k].ts <= calc.sentiments[j].ts}
C20_OnePointPerPairedSnapshot ==
  calc.fn = "simulated" =>
    /\ Len(calc.points) = Cardinality(Qualifying)
    /\ \E f \in [DOMAIN calc.points -> Qualifying] :
         /\ \A a, b \in DOMAIN calc.points : f[a] = f[b] => a = b
         /\ \A a \in DOMAIN calc.points :
              /\ calc.points[a].timestamp = calc.markets[f[a]].ts
              /\ calc.points[a].probability = calc.markets[f[a]].value
              /\ \E j \in LatestBefore(f[a]) :
                   calc.points[a].sentiment = calc.sentiments[j].value
C20_Witness ==
  /\ calc.fn = "simulated"
  /\ calc.strategy = [minPredictionProb |-> 50000, minSentimentScore |-> 0]
  /\ calc.from = 0 /\ calc.to = 2
  /\ calc.markets = <<[ts |-> 0, value |-> 60000], [ts |-> 2, value |-> 60000]>>
  /\ calc.sentiments = <<[ts |-> 2, value |-> 10000], [ts |-> 1, value |-> -10000]>>
  /\ calc.points = <<[timestamp |-> 2, probability |-> 60000,
                      sentiment |-> 10000, wouldExecute |-> TRUE]>>
  /\ calc.total = 1

\* what the live evaluation decides at the time of market snapshot i, on
\* the snapshots recorded up to then: every sentiment snapshot stamped at or
\* before it counts, and the latest one is read
LiveOutcomes(i) ==
  LET m == calc.markets[i]
      upTo == {j \in DOMAIN calc.sentiments : calc.sentiments[j].ts <= m.ts}
      latest == {j \in upTo : \A k \in upTo :
                   calc.sentiments[k].ts <= calc.sentiments[j].ts}
  IN IF upTo = {} THEN {"skip"}
     ELSE {IF meetsThresholds(m.value, calc.sentiments[j].value, calc.strategy)
           THEN "fire" ELSE "hold" : j \in latest}
\* what the simulator returned for market snapshot i
SimOutcomes(i) ==
  LET m == calc.markets[i]
      P == {a \in DOMAIN calc.points :
              /\ calc.points[a].timestamp = m.ts
              /\ calc.points[a].probability = m.value}
  IN IF P = {} THEN {"skip"}
     ELSE {IF calc.points[a].wouldExecute THEN "fire" ELSE "hold" : a \in P}

\* C21: for every market snapshot of the requested range, the simulator's
\* outcome (would execute, would not, no point) is the outcome of the live
\* evaluation at that snapshot's time on the snapshots recorded up to then
\* (fire, not fire, missing-data skip).
C21_BacktestMatchesLive ==
  calc.fn = "simulated" =>
    \A i \in DOMAIN calc.markets :
      InRange(calc.markets[i], calc.from, calc.to)
        => SimOutcomes(i) \subseteq LiveOutcomes(i)

\* C22: every point's wouldExecute is the Engine's firing rule on the
\* point's probability and sentiment and the strategy's thresholds.
C22_SamePredicate ==
  calc.fn = "simulated" =>
    \A a \in DOMAIN calc.points :
      calc.points[a].wouldExecute
        <=> meetsThresholds(calc.points[a].probability,
                            calc.points[a].sentiment, calc.strategy)

\* two points of one backtest: one with the probability exactly at its
\* threshold and the sentiment above, which would execute, and one with the
\* sentiment below its threshold, which would not
C22_Witness ==
  /\ calc.fn = "simulated"
  /\ Len(calc.points) = 2
  /\ \E a, b \in DOMAIN calc.points :
       /\ calc.points[a].probability = calc.strategy.minPredictionProb
       /\ calc.points[a].sentiment > calc.strategy.minSentimentScore
       /\ calc.points[a].wouldExecute
       /\ calc.points[b].sentiment < calc.strategy.minSentimentScore
       /\ ~calc.points[b].wouldExecute

\* C23: no step of a backtest changes a Strategy row, a snapshot, an
\* ExecutionLog row or the chain, or starts a handler that settles, whatever
\* the strategy's status and the range.
C23_BacktestReadOnly ==
  [][calc' # calc
       => /\ strategies' = strategies
          /\ logs' = logs
          /\ chain' = chain
          /\ market' = market /\ sentiment' = sentiment
          /\ calc'.markets = calc.markets
          /\ calc'.sentiments = calc.sentiments
          /\ runs' = runs /\ req' = req /\ creator' = creator]_vars

\* the backtest of an EXECUTED strategy replied with points that would
\* execute; the strategy, its settlement and its log row are as they were
C23_Witness ==
  /\ calc.fn = "replied" /\ calc.reply = 200 /\ calc.total >= 1
  /\ Len(strategies) = 1 /\ status(1) = "EXECUTED"
  /\ strategies[1].lastTxHash = SettledRes.txHash
  /\ chain[1].events = 1
  /\ LogsOf(1, TRUE) = 1 /\ LogCount = 1

\* the rule table as the claim words it: the overrides, then the prefixes;
\* "" for no tag
Overrides ==
  {<<<<"TRUMP", "CABINET">>, "TRUMP">>, <<<<"TRUMP", "NOMINEE">>, "TRUMP">>,
   <<<<"ELECTION", "2028">>, "ELECTION">>, <<<<"FED", "RATES">>, "FED">>,
   <<<<"ECON", "RECESSION">>, "STOCK_MARKET">>,
   <<<<"FINANCE", "NVIDIA">>, "STOCK_MARKET">>}
RuleTag(m) ==
  IF \E e \in Overrides : e[1] = m
  THEN (CHOOSE e \in Overrides : e[1] = m)[2]
  ELSE IF Len(m) >= 2 /\ m[1] \in {"CRYPTO", "SPORTS", "POLITICS"} THEN m[1]
  ELSE ""

\* C24: the markets Discovery goes on with are the recent ones whose tag by
\* the rule table (exact override first, else the CRYPTO_, SPORTS_ or
\* POLITICS_ prefix) has recent data; every strategy Discovery creates
\* carries the tag the table gives its market, and a market with no rule
\* gets no strategy.
C24_RuleTable ==
  /\ [](\A s \in Discovered :
          /\ RuleTag(strategies[s].marketId) # ""
          /\ strategies[s].sentimentTag = RuleTag(strategies[s].marketId))
  /\ [][\A r \in Runs :
          (runs[r].pc = "disc_mkt" /\ runs'[r].pc \in {"disc_loop", "load"})
            => /\ {runs'[r].dmk[i] : i \in DOMAIN runs'[r].dmk}
                  = {m \in recentMarkets :
                       RuleTag(m) # "" /\ RuleTag(m) \in runs[r].dsent}
               /\ Len(runs'[r].dmk) = Cardinality(
                    {runs'[r].dmk[i] : i \in DOMAIN runs'[r].dmk})]_vars

\* Discovery is through: FED_RATES got FED (exact override), SPORTS_NFL got
\* SPORTS (prefix), and US_POLICY, with a fresh snapshot, got nothing
C24_Witness ==
  /\ runs[1].pc = "load" /\ started = 1
  /\ market[<<"US", "POLICY">>].ts = now
  /\ Len(strategies) = 2 /\ Discovered = {1, 2}
  /\ \E s, t \in Discovered :
       /\ strategies[s].marketId = <<"FED", "RATES">>
       /\ strategies[s].sentimentTag = "FED"
       /\ strategies[t].marketId = <<"SPORTS", "NFL">>
       /\ strategies[t].sentimentTag = "SPORTS"

\* C25: the step by which Discovery creates a strategy finds the market with
\* a snapshot of the last 24 hours, the tag the rule table gives it with a
\* snapshot of score > 0.1 of the last 24 hours, and no ACTIVE strategy of
\* the pair; the new strategy is ACTIVE, carries that tag and expires one
\* week after its creation.
C25_CreationConditions ==
  [][\A r \in Runs :
       (runs[r].pc = "disc_create" /\ Steps(r) /\ Len(strategies') > Len(strategies))
         => LET row == strategies'[Len(strategies')]
                m == row.marketId
                tag == row.sentimentTag
            IN /\ market[m].ts >= 0 /\ market[m].ts >= now - DAY
               /\ RuleTag(m) = tag /\ tag # ""
               /\ sentiment[tag].posTs >= 0 /\ sentiment[tag].posTs >= now - DAY
               /\ ActiveOfPair(m, tag) = {}
               /\ row.status = "ACTIVE"
               /\ row.expiryTimestamp = now + WEEK]_vars

\* C26: a run loads the ACTIVE strategies when its Discovery is through, and
\* the loaded list holds every strategy that Discovery created; each step of
\* the sweep takes one strategy off the list, expiring or evaluating it; and
\* the run ends only when the list is done.
C26_DiscoveryThenSweep ==
  [][\A r \in Runs :
       /\ (runs[r].pc = "load" /\ runs'[r].pc = "sweep")
            => runs[r].dmk = <<>> /\ runs[r].made \subseteq runs'[r].todo
       /\ (runs[r].pc = "sweep" /\ runs'[r].todo # runs[r].todo /\ runs'[r].pc # "idle")
            => \E s \in runs[r].todo :
                 /\ runs'[r].todo = runs[r].todo \ {s}
                 /\ strategies'[s].status = "EXPIRED" \/ runs'[r].cur = s
       /\ (runs[r].pc # "idle" /\ runs'[r].pc = "idle")
            => runs[r].pc = "sweep" /\ runs[r].todo = {}]_vars

\* C27: when a run that evaluated s after its settlement (the chain refused
\* the second one: the abort is on record) is through its list, s has the
\* status the settlement's own run would have given it had it not been
\* interrupted before its writes: EXECUTED.
C27_ResumeReachesSameStatus ==
  \A r \in Runs :
    (runs[r].pc = "sweep" /\ runs[r].todo = {} /\ runs[r].cur = 0)
      => \A s \in Ids :
           (/\ chain[s].executed
            /\ \E e \in DOMAIN logs :
                 e.strategyId = s /\ ~e.success /\ e.reason = "abort")
             => status(s) = "EXECUTED"

\* C28: a worker that cannot reach the persistence layer during its initial
\* fetcher and Engine runs never schedules the periodic runs.
C28_StartupFailureHalts ==
  (calc.fn = "startWorker" /\ calc.db = "down") => calc.pc # "scheduled"

\* the positions of a run inside Discovery
InDiscovery == {"disc_sent", "disc_mkt", "disc_loop", "disc_create", "disc_reg"}

\* C29: whatever happens inside Discovery, the run goes on: it leaves
\* Discovery only to load the ACTIVE strategies.
C29_DiscoveryFailureIsLocal ==
  [][\A r \in Runs :
       (runs[r].pc \in InDiscovery /\ Steps(r))
         => runs'[r].pc \in InDiscovery \cup {"load"}]_vars

\* C30: when a creation request or a Discovery has registered a strategy and
\* moves on, the row holds the on-chain strategy identifier; a strategy that
\* is not registered holds none.
C30_OnchainIdRecorded ==
  /\ [](\A s \in Ids : ~chain[s].registered => strategies[s].onchainStrategyId = 0)
  /\ [][/\ (creator.pc = "record" /\ creator'.pc # "record")
             => strategies'[creator.sid].onchainStrategyId # 0
        /\ \A r \in Runs :
             (/\ runs[r].pc = "disc_reg" /\ runs'[r].pc # "disc_reg"
              /\ chain'[runs[r].cur].registered)
               => strategies'[runs[r].cur].onchainStrategyId # 0]_vars

\* C31: one call of the settlement client makes at most two submissions (the
\* first one and one retry after a rate-limit error) before it returns.
C31_OneRetry ==
  calc.fn \in SubmitFns => calc.passes <= 2

C33_ExecuteAtMostOnce ==
  /\ [](\A s \in StratIds :
          /\ chain[s].events <= 1
          /\ (chain[s].executed <=> chain[s].events = 1)
          /\ (chain[s].executed => chain[s].registered)
          /\ \A a \in SubmitProbBps, b \in SubmitSentBps :
               /\ (chain[s].executed
                     => execute_abort(s, a, b) = E_STRATEGY_ALREADY_EXECUTED)
               /\ (execute_abort(s, a, b) # 0 => execute_strategy(s, a, b) = chain)
               /\ (execute_abort(s, a, b) = 0
                     => /\ execute_strategy(s, a, b)[s].executed
                        /\ ~chain[s].executed))
  /\ [][\A s \in StratIds :
          /\ (chain[s].executed => chain'[s] = chain[s])
          /\ (chain[s].registered =>
                /\ chain'[s].registered
                /\ chain'[s].min_prediction_prob = chain[s].min_prediction_prob
                /\ chain'[s].min_sentiment_score = chain[s].min_sentiment_score)
          /\ (chain'[s].events # chain[s].events
                => /\ chain[s].registered /\ ~chain[s].executed
                   /\ chain'[s].executed
                   /\ chain'[s].events = chain[s].events + 1
                   /\ chain'[s].prob_bps >= chain[s].min_prediction_prob
                   /\ chain'[s].sentiment_bps >= chain[s].min_sentiment_score)
          /\ (chain'[s].executed # chain[s].executed
                => chain'[s].events = chain[s].events + 1)]_vars

\* an execute call whose first submission committed and whose resubmission
\* was refused by the contract: one event, the entry as the first one left it
C33_Witness ==
  /\ calc.fn = "execute_strategy" /\ calc.pc = "returned" /\ calc.passes >= 2
  /\ ~calc.res.success /\ calc.res.reason = "abort"
  /\ chain[calc.sid].executed /\ chain[calc.sid].events = 1
  /\ chain[calc.sid].prob_bps = calc.probBps
  /\ chain[calc.sid].sentiment_bps = calc.sentBps

\* C34: no step takes a strategy to EXECUTED at a time later than its expiry
\* timestamp.
C34_NoExecutionAfterExpiry ==
  [][\A s \in Ids :
       (status(s) # "EXECUTED" /\ strategies'[s].status = "EXECUTED")
         => now <= strategies[s].expiryTimestamp]_vars

\* the database calls of Discovery do not fail for ever either
DiscoveryFair ==
  \A r \in LiveRuns :
    /\ SF_vars(DiscSentiments(r) /\ runs'[r].pc # "aborted")
    /\ SF_vars(DiscMarkets(r) /\ runs'[r].pc # "aborted")
    /\ SF_vars(DiscFindExisting(r) /\ runs'[r].pc # "aborted")
    /\ SF_vars(DiscCreate(r) /\ runs'[r].pc # "aborted")

\* C35: once the chain holds a strategy as executed, the repository status
\* of that strategy eventually becomes EXECUTED.
C35_RecordsConverge ==
  \A s \in StratIds :
    (chain[s].executed) ~> (s \in Ids /\ status(s) = "EXECUTED")

\* C36: a strategy whose repository status is EXECUTED is registered and
\* executed on the chain, and the step that writes EXECUTED records the hash
\* of the transaction that executed it, returned by a successful settlement
\* call of the writing handler.
C36_ExecutedImpliesSettled ==
  /\ [](\A s \in Ids :
          status(s) = "EXECUTED"
            => /\ chain[s].registered /\ chain[s].executed
               /\ strategies[s].lastTxHash = TxHash(s, chain))
  /\ [][\A s \in Ids :
          (status(s) # "EXECUTED" /\ strategies'[s].status = "EXECUTED")
            => \/ \E r \in Runs :
                    /\ runs[r].pc = "update" /\ runs[r].cur = s
                    /\ runs[r].res.success
                    /\ strategies'[s].lastTxHash = runs[r].res.txHash
               \/ /\ req.pc = "update" /\ req.sid = s /\ req.res.success
                  /\ strategies'[s].lastTxHash = req.res.txHash]_vars

\* a strategy set to EXECUTED after a settlement that the chain holds
C36_Witness ==
  \E s \in Ids :
    /\ status(s) = "EXECUTED"
    /\ chain[s].executed /\ chain[s].events = 1
    /\ strategies[s].lastTxHash = <<s, 1>>

RegistrationFails(s) ==
  /\ chain[s].registered
  /\ \/ \E r \in Runs :
          runs[r].pc = "disc_reg" /\ runs[r].cur = s /\ runs[r].tries > 0
     \/ creator.pc = "register" /\ creator.sid = s /\ creator.tries > 0

\* C38: a strategy whose registration call returns a failure never reaches
\* EXECUTED.
C38_FailedRegistrationNeverExecutes ==
  \A s \in StratIds :
    [](RegistrationFails(s) => [](s \in Ids => status(s) # "EXECUTED"))

\* the pair has strategies, all of them EXECUTED or EXPIRED
PrevTerminal(m, tag) ==
  /\ ActiveOfPair(m, tag) = {}
  /\ \E s \in Ids : strategies[s].marketId = m /\ strategies[s].sentimentTag = tag

\* the strategies r created for a pair that had an EXECUTED or EXPIRED one
Fresh(r) ==
  {s \in runs[r].made \cap Ids :
     \E q \in Ids \ {s} :
       /\ strategies[q].marketId = strategies[s].marketId
       /\ strategies[q].sentimentTag = strategies[s].sentimentTag
       /\ status(q) \in Terminal}

\* C39: when a Discovery comes to a qualifying pair whose strategies are all
\* EXECUTED or EXPIRED, it goes on to create a strategy; the creation adds an
\* ACTIVE strategy of the pair; and the run loads the strategy it created
\* before it ends, so that its sweep evaluates it.
C39_TerminalDoesNotBlock ==
  [][\A r \in Runs :
       /\ (/\ runs[r].pc = "disc_loop" /\ Steps(r)
           /\ PrevTerminal(Head(runs[r].dmk), RuleTag(Head(runs[r].dmk))))
            => runs'[r].pc = "disc_create"
       /\ (/\ runs[r].pc = "disc_create" /\ Steps(r) /\ Len(strategies) < MaxStrat
           /\ PrevTerminal(Head(runs[r].dmk), RuleTag(Head(runs[r].dmk))))
            => /\ Len(strategies') = Len(strategies) + 1
               /\ strategies'[Len(strategies')].status = "ACTIVE"
               /\ strategies'[Len(strategies')].marketId = Head(runs[r].dmk)
       /\ (runs[r].pc = "load" /\ Steps(r))
            => runs'[r].pc = "sweep" \/ Fresh(r) = {}
       /\ (runs[r].pc = "load" /\ runs'[r].pc = "sweep")
            => Fresh(r) \subseteq runs'[r].todo
       /\ (runs[r].pc # "idle" /\ runs'[r].pc = "idle") => Fresh(r) = {}]_vars

\* C40: every ACTIVE strategy whose expiry timestamp the clock passes
\* eventually becomes EXECUTED or EXPIRED, as long as runs are started, the
\* clock goes on and settlement calls return.
C40_ActiveTerminates ==
  \A s \in StratIds :
    (s \in Ids /\ status(s) = "ACTIVE" /\ strategies[s].expiryTimestamp < MaxTime)
      ~> (s \in Ids /\ status(s) \in Terminal)

\* the same, for the behaviours in which the database calls of Discovery do
\* not fail for ever
ActiveTerminatesIfDiscoveryFair == DiscoveryFair => C40_ActiveTerminates

====
